---- MODULE Spec2Model ----
(***************************************************************************)
(* Product Feedback Board (src/src/App.tsx): the zustand store             *)
(* useFeedbackStore with its persist middleware, the derived view of       *)
(* FeedbackList, the edit dialog of FeedbackItem and the import handler    *)
(* of ExperimentalPanel.                                                    *)
(*                                                                         *)
(* Representation.  A Feedback is a record [id, text, votes, category,     *)
(* createdAt].  Ids are strings in the program and are only ever compared  *)
(* for equality; the model writes them as naturals: 1..MaxUuid are the     *)
(* values crypto.randomUUID() can return, 0 is an id string written by     *)
(* hand into an import file.  Arrays are sequences, so categoryFilters     *)
(* keeps its order and could hold duplicates, as in the program.           *)
(***************************************************************************)
EXTENDS Integers, Sequences, FiniteSets, TLC

VARIABLES
    feedbacks,        \* FeedbackState.feedbacks
    sortBy,           \* FeedbackState.sortBy
    categoryFilters,  \* FeedbackState.categoryFilters
    isDarkMode,       \* FeedbackState.isDarkMode
    storage,          \* localStorage['product-feedback-board-storage']: <<>> or <<snapshot>>
    dialog,           \* the open edit dialog of a FeedbackItem: <<>> or <<[id, votesAtOpen]>>
    download,         \* product_feedback_board.json as last exported: <<>> or <<[file, source]>>
    lastOp            \* the last operation performed and its arguments (history)

vars == <<feedbacks, sortBy, categoryFilters, isDarkMode, storage, dialog, download, lastOp>>

----------------------------------------------------------------------------
(* Bounds of the model *)

MaxFeedbacks == 2     \* records held at once
MaxVotes == 2         \* votes are kept within -MaxDown..MaxVotes
MaxDown == 1
MaxTime == 2          \* Date.now() returns a value of 1..MaxTime
MaxUuid == 3          \* crypto.randomUUID() returns a value of 1..MaxUuid
MaxImportLen == 2     \* elements of an imported array
MaxStored == 1        \* records held at once when writes may fail

----------------------------------------------------------------------------
(* Types and constants: App.tsx lines 6-17 *)

ALL_CATEGORIES == <<"UI", "Performance", "Feature", "Other">>

SortBys == {"votes", "newest"}

VoteTypes == {"up", "down"}

\* String.prototype.trim() followed by the truthiness test of the result.
TrimIsEmpty(text) == text \in {"", " "}

Times == 1..MaxTime

Uuids == 1..MaxUuid

\* Array.prototype.includes
Includes(arr, x) == \E i \in 1..Len(arr) : arr[i] = x

Ids(fs) == {fs[i].id : i \in 1..Len(fs)}

----------------------------------------------------------------------------
(* The store's state updates: App.tsx lines 38-94.  Each is the function   *)
(* the mutator hands to set(), applied to the slice of the state it reads. *)

\* Mutant: the new record is put behind the records held.
addFeedback_Appends(fs, text, category, uuid, now) ==
    Append(fs, [id |-> uuid, text |-> text, votes |-> 0,
                category |-> category, createdAt |-> now])

\* addFeedback (lines 44-56); uuid is crypto.randomUUID(), now is Date.now().
addFeedback(fs, text, category, uuid, now) ==
    << [id |-> uuid, text |-> text, votes |-> 0,
        category |-> category, createdAt |-> now] >> \o fs

\* Mutant: the record is removed by its position, and the position of an id
\* that is not found removes the last record.
removeFeedback_ByPosition(fs, id) ==
    IF fs = <<>> THEN fs
    ELSE IF id \in Ids(fs) THEN SelectSeq(fs, LAMBDA feedback : feedback.id # id)
    ELSE SubSeq(fs, 1, Len(fs) - 1)

\* removeFeedback (lines 58-61)
removeFeedback(fs, id) == SelectSeq(fs, LAMBDA feedback : feedback.id # id)

\* Numbers are IEEE doubles.  The values of the model are integers far from
\* 2^53, where the arithmetic is exact, and Infinity, which JSON.parse gives
\* for a number literal beyond the largest double, such as 1e999.
Infinity == 1000

\* null where a number is expected: what JSON.stringify writes for a number
\* that is not finite, read back.
Null == -1000

\* ToNumber: null counts as 0 in arithmetic.
ToNumber(v) == IF v = Null THEN 0 ELSE v

\* The + of two numbers, the second finite: Infinity + 1 and Infinity - 1
\* are Infinity.
Plus(v, d) == IF v = Infinity THEN Infinity ELSE ToNumber(v) + d

\* Mutant: votes do not go below zero.
voteFeedback_Floor(fs, id, type) ==
    [i \in 1..Len(fs) |->
        IF fs[i].id = id
        THEN [fs[i] EXCEPT !.votes = IF type = "up" THEN Plus(@, 1)
                                     ELSE IF @ > 0 THEN Plus(@, -1) ELSE 0]
        ELSE fs[i]]

\* voteFeedback (lines 63-70)
voteFeedback(fs, id, type) ==
    [i \in 1..Len(fs) |->
        IF fs[i].id = id
        THEN [fs[i] EXCEPT !.votes = Plus(@, IF type = "up" THEN 1 ELSE -1)]
        ELSE fs[i]]

\* Mutant: the category is added whether or not it is selected.
toggleCategoryFilter_AlwaysAdds(currentFilters, category) ==
    Append(currentFilters, category)

\* Mutant: only the last category selected is looked at to tell whether the
\* category is selected.
toggleCategoryFilter_ChecksLast(currentFilters, category) ==
    IF currentFilters # <<>> /\ currentFilters[Len(currentFilters)] = category
    THEN SelectSeq(currentFilters, LAMBDA cat : cat # category)
    ELSE Append(currentFilters, category)

\* toggleCategoryFilter (lines 74-82)
toggleCategoryFilter(currentFilters, category) ==
    IF Includes(currentFilters, category)
    THEN SelectSeq(currentFilters, LAMBDA cat : cat # category)
    ELSE Append(currentFilters, category)

\* ALL_CATEGORIES.forEach(cat => toggleCategoryFilter(cat)) over the
\* categories cats: each call updates the filters the call before left.
RECURSIVE ForEachToggle(_, _)
ForEachToggle(cats, currentFilters) ==
    IF cats = <<>> THEN currentFilters
    ELSE ForEachToggle(Tail(cats), toggleCategoryFilter(currentFilters, Head(cats)))

\* Mutant: when not all categories are selected, every category is toggled.
ToggledByAll_Every(filters) == ALL_CATEGORIES

\* The categories toggleAllCategories (lines 340-352) calls
\* toggleCategoryFilter for, in the order of the calls; filters is the
\* categoryFilters the component rendered with.
ToggledByAll(filters) ==
    IF Len(filters) = Len(ALL_CATEGORIES)
    THEN ALL_CATEGORIES
    ELSE SelectSeq(ALL_CATEGORIES, LAMBDA cat : ~Includes(filters, cat))

\* The filters toggleAllCategories leaves.
toggleAllCategories(filters) == ForEachToggle(ToggledByAll(filters), filters)

\* Mutant: the edited record is built anew and its votes start again at zero.
editFeedback_ResetsVotes(fs, id, newText, newCategory) ==
    [i \in 1..Len(fs) |->
        IF fs[i].id = id
        THEN [id |-> fs[i].id, text |-> newText, votes |-> 0,
              category |-> newCategory, createdAt |-> fs[i].createdAt]
        ELSE fs[i]]

\* editFeedback (lines 84-89)
editFeedback(fs, id, newText, newCategory) ==
    [i \in 1..Len(fs) |->
        IF fs[i].id = id
        THEN [fs[i] EXCEPT !.text = newText, !.category = newCategory]
        ELSE fs[i]]

\* importFeedbacks (line 93)
importFeedbacks(fs, data) == data

----------------------------------------------------------------------------
(* The derived view: FeedbackList, App.tsx lines 307-317 *)

\* Mutant: no category selected shows every record (as the comment of line
\* 309 says) instead of none.
KeepInView_EmptyShowsAll(feedback, filters) ==
    \/ Len(filters) = 0
    \/ Includes(filters, feedback.category)

\* The filter callback (lines 308-311).
KeepInView(feedback, filters) ==
    \/ Len(filters) = Len(ALL_CATEGORIES)
    \/ Includes(filters, feedback.category)

\* Mutant: the operands of the votes comparison are swapped.
Compare_VotesAscending(a, b, sort) ==
    IF sort = "votes" THEN ToNumber(a.votes) - ToNumber(b.votes)
    ELSE ToNumber(b.createdAt) - ToNumber(a.createdAt)

\* The sort comparator (lines 312-317): negative, zero or positive.  The
\* difference of two Infinity is NaN, which sort takes as zero.
Compare(a, b, sort) ==
    IF sort = "votes" THEN ToNumber(b.votes) - ToNumber(a.votes)
    ELSE ToNumber(b.createdAt) - ToNumber(a.createdAt)

\* One insertion of a stable sort: x, which followed every element of the
\* sorted sequence in the input, goes behind every element that does not
\* compare greater than it.
RECURSIVE InsertSorted(_, _, _)
InsertSorted(sorted, x, sort) ==
    IF sorted = <<>> THEN <<x>>
    ELSE IF Compare(Head(sorted), x, sort) <= 0
         THEN <<Head(sorted)>> \o InsertSorted(Tail(sorted), x, sort)
         ELSE <<x>> \o sorted

\* Array.prototype.sort with the comparator: a stable sort (ECMAScript 2019).
RECURSIVE SortFrom(_, _, _)
SortFrom(sorted, rest, sort) ==
    IF rest = <<>> THEN sorted
    ELSE SortFrom(InsertSorted(sorted, Head(rest), sort), Tail(rest), sort)

\* sortedAndFilteredFeedbacks (lines 307-317)
View(fs, sort, filters) ==
    SortFrom(<<>>, SelectSeq(fs, LAMBDA feedback : KeepInView(feedback, filters)), sort)

----------------------------------------------------------------------------
(* The persist middleware: App.tsx lines 37, 95-97 *)

\* A number as JSON.parse reads back what JSON.stringify wrote for it.
Reparsed(v) == IF v = Infinity THEN Null ELSE v

\* The part of the state persist saves: every field that is not a function,
\* as the JSON text kept under the key reads back.
Snapshot(fs, sort, filters, dark) ==
    [feedbacks |-> [i \in 1..Len(fs) |->
                      [fs[i] EXCEPT !.votes = Reparsed(@), !.createdAt = Reparsed(@)]],
     sortBy |-> sort, categoryFilters |-> filters, isDarkMode |-> dark]

\* The state the store creator returns (lines 39-42).
InitialState == Snapshot(<<>>, "newest", ALL_CATEGORIES, FALSE)

\* A FeedbackItem (and its dialog) stays mounted while a record with its key
\* is rendered (lines 324-326).
DialogAfter(fs, sort, filters) ==
    IF dialog # <<>> /\ dialog[1].id \in Ids(View(fs, sort, filters))
    THEN dialog ELSE <<>>

\* Mutant: the snapshot is written before the state is updated.
SetState_WritesOldState(fs, sort, filters, dark, written) ==
    /\ feedbacks' = fs
    /\ sortBy' = sort
    /\ categoryFilters' = filters
    /\ isDarkMode' = dark
    /\ storage' = IF written
                  THEN <<Snapshot(feedbacks, sortBy, categoryFilters, isDarkMode)>>
                  ELSE storage
    /\ dialog' = DialogAfter(fs, sort, filters)
    /\ UNCHANGED download

\* set() as persist wraps it: the new state, then the write of the snapshot
\* to the storage key; written says whether localStorage.setItem succeeded.
SetState(fs, sort, filters, dark, written) ==
    /\ feedbacks' = fs
    /\ sortBy' = sort
    /\ categoryFilters' = filters
    /\ isDarkMode' = dark
    /\ storage' = IF written THEN <<Snapshot(fs, sort, filters, dark)>> ELSE storage
    /\ dialog' = DialogAfter(fs, sort, filters)
    /\ UNCHANGED download

----------------------------------------------------------------------------
(* Import files: what FileReader hands to reader.onload *)

\* A JSON value of a field, by its typeof and its content.
Val(type, v) == [type |-> type, v |-> v]

\* A well-formed element for a Feedback.
AsItem(f) ==
    [kind |-> "object",
     id |-> Val("string", f.id), text |-> Val("string", f.text),
     votes |-> Val("number", f.votes), category |-> Val("string", f.category),
     createdAt |-> Val("number", f.createdAt)]

\* The Feedback an element that passed the validation is.
AsFeedback(item) ==
    [id |-> item.id.v, text |-> item.text.v, votes |-> item.votes.v,
     category |-> item.category.v, createdAt |-> item.createdAt.v]

\* JSON.stringify of a number: a number that is not finite is written as
\* null, and typeof null is "object".
JSONNumber(v) == IF v \in {Infinity, Null} THEN Val("object", 0) ELSE Val("number", v)

\* JSON.stringify(feedbacks, null, 2) (line 397) as JSON.parse reads it back:
\* an array of one object per record, strings as they are, numbers by
\* JSONNumber.
JSONStringify(fs) ==
    [kind |-> "array",
     items |-> [i \in 1..Len(fs) |->
                  [kind |-> "object",
                   id |-> Val("string", fs[i].id), text |-> Val("string", fs[i].text),
                   votes |-> JSONNumber(fs[i].votes),
                   category |-> Val("string", fs[i].category),
                   createdAt |-> JSONNumber(fs[i].createdAt)]]]

NoFile == [kind |-> "none", items |-> <<>>]

NoOp == [op |-> "init", id |-> 0, text |-> "", category |-> "", arg |-> "",
         file |-> NoFile, written |-> FALSE, votesAtOpen |-> 0, calls |-> <<>>]

Op(op, id, text, category, arg, written) ==
    [NoOp EXCEPT !.op = op, !.id = id, !.text = text, !.category = category,
                 !.arg = arg, !.written = written]

----------------------------------------------------------------------------
(* Operations *)

AddFeedback(text, category, uuid, now, written) ==
    /\ SetState(addFeedback(feedbacks, text, category, uuid, now),
                sortBy, categoryFilters, isDarkMode, written)
    /\ lastOp' = Op("addFeedback", uuid, text, category, "", written)

RemoveFeedback(id, written) ==
    /\ SetState(removeFeedback(feedbacks, id), sortBy, categoryFilters, isDarkMode, written)
    /\ lastOp' = Op("removeFeedback", id, "", "", "", written)

VoteFeedback(id, type, written) ==
    /\ SetState(voteFeedback(feedbacks, id, type), sortBy, categoryFilters, isDarkMode, written)
    /\ lastOp' = Op("voteFeedback", id, "", "", type, written)

SetSortBy(sort, written) ==
    /\ SetState(feedbacks, sort, categoryFilters, isDarkMode, written)
    /\ lastOp' = Op("setSortBy", 0, "", "", sort, written)

ToggleCategoryFilter(category, written) ==
    /\ SetState(feedbacks, sortBy, toggleCategoryFilter(categoryFilters, category),
                isDarkMode, written)
    /\ lastOp' = Op("toggleCategoryFilter", 0, "", category, "", written)

EditFeedback(id, newText, newCategory, written) ==
    /\ SetState(editFeedback(feedbacks, id, newText, newCategory),
                sortBy, categoryFilters, isDarkMode, written)
    /\ lastOp' = Op("editFeedback", id, newText, newCategory, "", written)

ToggleDarkMode(written) ==
    /\ SetState(feedbacks, sortBy, categoryFilters, ~isDarkMode, written)
    /\ lastOp' = Op("toggleDarkMode", 0, "", "", "", written)

(* The 'All' checkbox of CategoryFilterControls: App.tsx lines 340-352 *)

\* What the storage key holds after the calls of toggleCategoryFilter for
\* cats, each a set() with its write; writes[k] says whether the write of
\* the k-th call succeeded.
RECURSIVE StorageAfterToggles(_, _, _, _)
StorageAfterToggles(cats, currentFilters, stored, writes) ==
    IF cats = <<>> THEN stored
    ELSE StorageAfterToggles(
            Tail(cats), toggleCategoryFilter(currentFilters, Head(cats)),
            IF Head(writes)
            THEN <<Snapshot(feedbacks, sortBy,
                            toggleCategoryFilter(currentFilters, Head(cats)), isDarkMode)>>
            ELSE stored,
            Tail(writes))

\* toggleAllCategories: the calls run within the one click, so the next
\* render sees the filters the last call left.  lastOp'.calls lists the
\* categories toggleCategoryFilter was called for.
ToggleAllCategories(writes) ==
    /\ categoryFilters' = toggleAllCategories(categoryFilters)
    /\ storage' = StorageAfterToggles(ToggledByAll(categoryFilters), categoryFilters,
                                      storage, writes)
    /\ dialog' = DialogAfter(feedbacks, sortBy, toggleAllCategories(categoryFilters))
    /\ lastOp' = [Op("toggleAllCategories", 0, "", "",
                     IF Len(categoryFilters) = Len(ALL_CATEGORIES)
                     THEN "unselect" ELSE "select",
                     \E k \in 1..Len(ToggledByAll(categoryFilters)) : writes[k])
                  EXCEPT !.calls = ToggledByAll(categoryFilters)]
    /\ UNCHANGED <<feedbacks, sortBy, isDarkMode, download>>

(* The edit dialog of a FeedbackItem: App.tsx lines 195-210, 243-248 *)

\* The 'edit' button (line 244) of the item rendered for id.
OpenEdit(id) ==
    /\ dialog = <<>>
    /\ \E i \in 1..Len(feedbacks) :
          /\ feedbacks[i].id = id
          /\ feedbacks[i] \in {View(feedbacks, sortBy, categoryFilters)[k] :
                                 k \in 1..Len(View(feedbacks, sortBy, categoryFilters))}
          /\ dialog' = << [id |-> id, votesAtOpen |-> feedbacks[i].votes] >>
    /\ lastOp' = Op("openEdit", id, "", "", "", FALSE)
    /\ UNCHANGED <<feedbacks, sortBy, categoryFilters, isDarkMode, storage, download>>

\* handleEditSave (lines 199-204); editText and editCategory are what the
\* user left in the dialog's fields.
HandleEditSave(editText, editCategory, written) ==
    /\ dialog # <<>>
    /\ UNCHANGED download
    /\ IF ~TrimIsEmpty(editText)
       THEN /\ feedbacks' = editFeedback(feedbacks, dialog[1].id, editText, editCategory)
            /\ UNCHANGED <<sortBy, categoryFilters, isDarkMode>>
            /\ storage' = IF written
                          THEN <<Snapshot(feedbacks', sortBy, categoryFilters, isDarkMode)>>
                          ELSE storage
            /\ dialog' = <<>>
            /\ lastOp' = [Op("handleEditSave", dialog[1].id, editText, editCategory,
                             "saved", written) EXCEPT !.votesAtOpen = dialog[1].votesAtOpen]
       ELSE /\ lastOp' = Op("handleEditSave", dialog[1].id, editText, editCategory,
                            "blank", FALSE)
            /\ UNCHANGED <<feedbacks, sortBy, categoryFilters, isDarkMode, storage, dialog>>

\* handleEditCancel (lines 206-210)
HandleEditCancel ==
    /\ dialog # <<>>
    /\ dialog' = <<>>
    /\ lastOp' = Op("handleEditCancel", dialog[1].id, "", "", "", FALSE)
    /\ UNCHANGED <<feedbacks, sortBy, categoryFilters, isDarkMode, storage, download>>

----------------------------------------------------------------------------
(* Import: reader.onload of handleImport, App.tsx lines 410-433 *)

\* Mutant: the check of createdAt is missing.
ItemPasses_NoCreatedAt(item) ==
    /\ item.id.type = "string"
    /\ item.text.type = "string"
    /\ item.votes.type = "number"
    /\ item.category.type = "string" /\ Includes(ALL_CATEGORIES, item.category.v)

\* The callback of importedData.every (lines 414-420).
ItemPasses(item) ==
    /\ item.id.type = "string"
    /\ item.text.type = "string"
    /\ item.votes.type = "number"
    /\ item.category.type = "string" /\ Includes(ALL_CATEGORIES, item.category.v)
    /\ item.createdAt.type = "number"

\* importedData.every(...): "true", "false", or "throws" when an element is
\* null (item.id of null is a TypeError); every stops at the first false.
RECURSIVE Every(_)
Every(items) ==
    IF items = <<>> THEN "true"
    ELSE IF Head(items).kind = "null" THEN "throws"
    ELSE IF ~ItemPasses(Head(items)) THEN "false"
    ELSE Every(Tail(items))

\* What the try block does with the file's text (lines 411-432).
ImportOutcome(file) ==
    IF file.kind = "unparsable" THEN "error"        \* JSON.parse throws
    ELSE IF file.kind # "array" THEN "invalid"      \* Array.isArray is false
    ELSE IF Every(file.items) = "throws" THEN "error"
    ELSE IF Every(file.items) = "true" THEN "imported"
    ELSE "invalid"

ImportedData(file) == [i \in 1..Len(file.items) |-> AsFeedback(file.items[i])]

HandleImport(file, written) ==
    /\ IF ImportOutcome(file) = "imported"
       THEN SetState(importFeedbacks(feedbacks, ImportedData(file)),
                     sortBy, categoryFilters, isDarkMode, written)
       ELSE UNCHANGED <<feedbacks, sortBy, categoryFilters, isDarkMode, storage, dialog,
                        download>>
    /\ lastOp' = [Op("handleImport", 0, "", "", ImportOutcome(file),
                     written /\ ImportOutcome(file) = "imported") EXCEPT !.file = file]

----------------------------------------------------------------------------
(* Export: handleExport, App.tsx lines 396-404 *)

\* The click on the link downloads the document; source keeps the records
\* it was made from (history).
HandleExport ==
    /\ download' = << [file |-> JSONStringify(feedbacks), source |-> feedbacks] >>
    /\ lastOp' = Op("handleExport", 0, "", "", "", FALSE)
    /\ UNCHANGED <<feedbacks, sortBy, categoryFilters, isDarkMode, storage, dialog>>

\* The import of the document last exported.
ImportDownload(written) ==
    /\ download # <<>>
    /\ HandleImport(download[1].file, written)

----------------------------------------------------------------------------
(* A new session: create() runs again and persist hydrates from the key *)

Hydrated == IF storage = <<>> THEN InitialState ELSE storage[1]

Reload ==
    /\ feedbacks' = Hydrated.feedbacks
    /\ sortBy' = Hydrated.sortBy
    /\ categoryFilters' = Hydrated.categoryFilters
    /\ isDarkMode' = Hydrated.isDarkMode
    /\ dialog' = <<>>
    /\ lastOp' = Op("reload", 0, "", "", "", FALSE)
    /\ UNCHANGED <<storage, download>>

----------------------------------------------------------------------------
(* Inputs *)

Categories == {ALL_CATEGORIES[i] : i \in 1..Len(ALL_CATEGORIES)}

\* Elements of import files.
GoodItems ==
    {AsItem([id |-> i, text |-> "a", votes |-> 0, category |-> "UI", createdAt |-> 1]) :
        i \in 0..1}

BaseItem == AsItem([id |-> 0, text |-> "a", votes |-> 0, category |-> "UI", createdAt |-> 1])

BadItems ==
    { [BaseItem EXCEPT !.id = Val("number", 0)],
      [BaseItem EXCEPT !.text = Val("undefined", "")],
      [BaseItem EXCEPT !.votes = Val("string", 0)],
      [BaseItem EXCEPT !.category = Val("string", "Bug")],
      [BaseItem EXCEPT !.createdAt = Val("string", 1)],
      [BaseItem EXCEPT !.kind = "null"] }

GoodArrays == UNION {[1..n -> GoodItems] : n \in 0..MaxImportLen}

BadArrays ==
    {<<b>> : b \in BadItems}
    \cup (IF MaxImportLen < 2 THEN {}
          ELSE {<<BaseItem, b>> : b \in BadItems} \cup {<<b, BaseItem>> : b \in BadItems})

ImportFiles ==
    {[kind |-> "array", items |-> a] : a \in GoodArrays \cup BadArrays}
    \cup {[kind |-> k, items |-> <<>>] : k \in {"unparsable", "object", "null"}}

\* A well-formed file with a number literal beyond the largest double.
OverflowFile ==
    [kind |-> "array", items |-> <<[BaseItem EXCEPT !.votes = Val("number", Infinity)]>>]

\* One well-formed file and one that does not parse.
FewFiles ==
    {[kind |-> "array", items |-> <<BaseItem>>], [kind |-> "unparsable", items |-> <<>>]}

\* crypto.randomUUID() (line 48): an id no record carries.  Ids are only
\* compared for equality, so the least unused value stands for any of them.
randomUUID(fs) ==
    CHOOSE u \in Uuids \ Ids(fs) : \A v \in Uuids \ Ids(fs) : u <= v

\* The inputs a specification draws: the number of records held at once,
\* the texts and categories of new and edited records, the values of
\* Date.now(), the range votes are kept in, the categories toggled, the ids
\* passed that may be stale (the ids of the records held are always passed),
\* the files imported and the outcomes of localStorage.setItem.
Inputs(records, texts, categories, times, votes, toggled, ids, files, writes) ==
    [records |-> records, texts |-> texts, categories |-> categories, times |-> times,
     votes |-> votes, toggled |-> toggled, ids |-> ids, files |-> files, writes |-> writes]

SomeAddFeedback(in) ==
    \E text \in in.texts, category \in in.categories, now \in in.times, written \in in.writes :
        /\ Len(feedbacks) < in.records
        /\ AddFeedback(text, category, randomUUID(feedbacks), now, written)

SomeRemoveFeedback(in) ==
    \E id \in Ids(feedbacks) \cup in.ids, written \in in.writes : RemoveFeedback(id, written)

SomeVoteFeedback(in) ==
    \E id \in Ids(feedbacks) \cup in.ids, type \in VoteTypes, written \in in.writes :
        /\ \A i \in 1..Len(feedbacks) :
              voteFeedback(feedbacks, id, type)[i].votes \in in.votes
        /\ VoteFeedback(id, type, written)

SomeSetSortBy(in) ==
    \E sort \in SortBys, written \in in.writes : SetSortBy(sort, written)

SomeToggleCategoryFilter(in) ==
    \E category \in in.toggled, written \in in.writes :
        ToggleCategoryFilter(category, written)

SomeEditFeedback(in) ==
    \E id \in Ids(feedbacks) \cup in.ids, text \in in.texts, category \in in.categories,
       written \in in.writes :
        EditFeedback(id, text, category, written)

SomeToggleDarkMode(in) ==
    \E written \in in.writes : ToggleDarkMode(written)

SomeHandleImport(in) ==
    \E file \in in.files, written \in in.writes : HandleImport(file, written)

SomeToggleAllCategories(in) ==
    \E writes \in [1..Len(ALL_CATEGORIES) -> in.writes] : ToggleAllCategories(writes)

SomeImportDownload(in) ==
    \E written \in in.writes : ImportDownload(written)

SomeOpenEdit(in) ==
    \E id \in Ids(feedbacks) : OpenEdit(id)

SomeHandleEditSave(in) ==
    \E text \in in.texts \cup {" "}, category \in in.categories, written \in in.writes :
        HandleEditSave(text, category, written)

----------------------------------------------------------------------------
(* The specifications.  Each runs the operations below from the state the  *)
(* store is created in; they differ in the inputs they draw.               *)

Init ==
    /\ feedbacks = InitialState.feedbacks
    /\ sortBy = InitialState.sortBy
    /\ categoryFilters = InitialState.categoryFilters
    /\ isDarkMode = InitialState.isDarkMode
    /\ storage = <<>>
    /\ dialog = <<>>
    /\ download = <<>>
    /\ lastOp = NoOp

\* The store's mutators, the import and a new session, over the inputs in.
StoreNext(in) ==
    \/ SomeAddFeedback(in)
    \/ SomeRemoveFeedback(in)
    \/ SomeVoteFeedback(in)
    \/ SomeSetSortBy(in)
    \/ SomeToggleCategoryFilter(in)
    \/ SomeEditFeedback(in)
    \/ SomeToggleDarkMode(in)
    \/ SomeHandleImport(in)
    \/ Reload

FewVotes == 0..1

\* Spec: every operation of the store, called with stale ids too.
MainInputs ==
    Inputs(MaxFeedbacks, {"a", "b"}, {"UI"}, {1}, FewVotes, {"UI"}, {0} \cup Uuids,
           FewFiles, {TRUE})

Next == StoreNext(MainInputs)

Spec == Init /\ [][Next]_vars

\* SpecImport: every operation of the store, with every import file.
ImportInputs ==
    Inputs(MaxFeedbacks, {"a"}, {"UI"}, {1}, FewVotes, {"UI"}, {}, ImportFiles, {TRUE})

ImportNext == StoreNext(ImportInputs)

SpecImport == Init /\ [][ImportNext]_vars

\* SpecPersist: every operation of the store; writes to localStorage may fail.
\* At most MaxStored records are held at once.
PersistInputs ==
    Inputs(MaxStored, {"a"}, {"UI"}, {1}, FewVotes, {"UI"}, {}, FewFiles, BOOLEAN)

PersistNext == StoreNext(PersistInputs)

SpecPersist == Init /\ [][PersistNext]_vars

\* SpecAdd: records of two texts and two categories.
AddInputs ==
    Inputs(MaxFeedbacks, {"a", "b"}, {"UI", "Feature"}, {1}, FewVotes, {}, {}, FewFiles, {TRUE})

AddNext ==
    \/ SomeAddFeedback(AddInputs)
    \/ SomeRemoveFeedback(AddInputs)
    \/ SomeVoteFeedback(AddInputs)
    \/ SomeSetSortBy(AddInputs)
    \/ SomeToggleDarkMode(AddInputs)
    \/ SomeHandleImport(AddInputs)
    \/ Reload

SpecAdd == Init /\ [][AddNext]_vars

\* SpecVote: votes of -MaxDown..MaxVotes.
VoteInputs ==
    Inputs(MaxFeedbacks, {"a"}, {"UI"}, {1}, (-MaxDown)..MaxVotes, {}, {}, FewFiles, {TRUE})

VoteNext ==
    \/ SomeAddFeedback(VoteInputs)
    \/ SomeRemoveFeedback(VoteInputs)
    \/ SomeVoteFeedback(VoteInputs)
    \/ SomeSetSortBy(VoteInputs)
    \/ SomeToggleDarkMode(VoteInputs)
    \/ SomeHandleImport(VoteInputs)
    \/ Reload

SpecVote == Init /\ [][VoteNext]_vars

\* SpecEdit: the edit dialog, over records of two texts and two categories.
EditInputs ==
    Inputs(MaxFeedbacks, {"a", "b"}, {"UI", "Feature"}, {1}, FewVotes, {}, {}, {}, {TRUE})

EditNext ==
    \/ SomeAddFeedback(EditInputs)
    \/ SomeRemoveFeedback(EditInputs)
    \/ SomeVoteFeedback(EditInputs)
    \/ SomeEditFeedback(EditInputs)
    \/ SomeOpenEdit(EditInputs)
    \/ SomeHandleEditSave(EditInputs)
    \/ HandleEditCancel

SpecEdit == Init /\ [][EditNext]_vars

\* SpecView: every category added and toggled.
ViewInputs ==
    Inputs(MaxFeedbacks, {"a"}, Categories, {1}, {0}, Categories, {}, {}, {TRUE})

ViewNext ==
    \/ SomeAddFeedback(ViewInputs)
    \/ SomeRemoveFeedback(ViewInputs)
    \/ SomeSetSortBy(ViewInputs)
    \/ SomeToggleCategoryFilter(ViewInputs)
    \/ SomeToggleDarkMode(ViewInputs)

SpecView == Init /\ [][ViewNext]_vars

\* SpecSort: several creation times and votes of 0..MaxVotes.
SortInputs ==
    Inputs(MaxFeedbacks, {"a"}, {"UI", "Feature"}, Times, 0..MaxVotes, {"UI"}, {},
           {}, {TRUE})

SortNext ==
    \/ SomeAddFeedback(SortInputs)
    \/ SomeVoteFeedback(SortInputs)
    \/ SomeSetSortBy(SortInputs)
    \/ SomeToggleCategoryFilter(SortInputs)

SpecSort == Init /\ [][SortNext]_vars

\* SpecFilter: every category toggled, the 'All' checkbox, a new session.
FilterInputs ==
    Inputs(MaxFeedbacks, {"a"}, {"UI", "Feature"}, {1}, {0}, Categories, {}, {}, {TRUE})

FilterNext ==
    \/ SomeAddFeedback(FilterInputs)
    \/ SomeRemoveFeedback(FilterInputs)
    \/ SomeSetSortBy(FilterInputs)
    \/ SomeToggleCategoryFilter(FilterInputs)
    \/ SomeToggleAllCategories(FilterInputs)
    \/ Reload

SpecFilter == Init /\ [][FilterNext]_vars

\* SpecExport: export and the import of the exported document, with
\* records of two texts and an import file that holds 1e999.
ExportInputs ==
    Inputs(MaxFeedbacks, {"a", "b"}, {"UI"}, {1}, FewVotes \cup {Infinity, Null}, {}, {},
           FewFiles \cup {OverflowFile}, {TRUE})

ExportNext ==
    \/ SomeAddFeedback(ExportInputs)
    \/ SomeRemoveFeedback(ExportInputs)
    \/ SomeVoteFeedback(ExportInputs)
    \/ SomeHandleImport(ExportInputs)
    \/ HandleExport
    \/ SomeImportDownload(ExportInputs)
    \/ Reload

SpecExport == Init /\ [][ExportNext]_vars

----------------------------------------------------------------------------
(* Properties *)

\* The store's state: what the mutators read and write.
Store == <<feedbacks, sortBy, categoryFilters, isDarkMode>>

Mutators ==
    {"addFeedback", "removeFeedback", "voteFeedback", "setSortBy",
     "toggleCategoryFilter", "editFeedback", "toggleDarkMode"}

\* C1: in every reachable state no two records of feedbacks have the same
\* id.  The import handler accepts a file in which two elements carry one
\* id, so this is violated.
C1_UniqueIds ==
    \A i, j \in 1..Len(feedbacks) : i # j => feedbacks[i].id # feedbacks[j].id

\* C2: removeFeedback, voteFeedback and editFeedback called with an id no
\* record of feedbacks carries leave feedbacks, sortBy, categoryFilters and
\* isDarkMode as they were.
C2_NoOpOnUnknownId ==
    [][(/\ lastOp'.op \in {"removeFeedback", "voteFeedback", "editFeedback"}
        /\ lastOp'.id \notin Ids(feedbacks))
          => Store' = Store]_vars

\* C2 witness: editFeedback was called with an id none of the two records
\* held carries.
C2_Witness ==
    /\ lastOp.op = "editFeedback"
    /\ Len(feedbacks) = 2
    /\ lastOp.id \notin Ids(feedbacks)

\* An element as the import's validation is described: an object whose id
\* and text are strings, whose votes and createdAt are numbers and whose
\* category is one of the four.
WellFormedItem(item) ==
    /\ item.kind = "object"
    /\ item.id.type = "string" /\ item.text.type = "string"
    /\ item.votes.type = "number" /\ item.createdAt.type = "number"
    /\ item.category.type = "string"
    /\ item.category.v \in {"UI", "Performance", "Feature", "Other"}

WellFormedFile(file) ==
    /\ file.kind = "array"
    /\ \A i \in 1..Len(file.items) : WellFormedItem(file.items[i])

\* C3: an import either leaves the store and the storage exactly as they
\* were (the file does not parse, is no array, or has an element that fails
\* the check) or, when every element passes, makes feedbacks the imported
\* sequence and changes nothing else of the store.
C3_ImportAllOrNothing ==
    [][lastOp'.op = "handleImport" =>
          IF WellFormedFile(lastOp'.file)
          THEN /\ Len(feedbacks') = Len(lastOp'.file.items)
               /\ \A i \in 1..Len(feedbacks') :
                     AsItem(feedbacks'[i]) = lastOp'.file.items[i]
               /\ <<sortBy, categoryFilters, isDarkMode>>' =
                     <<sortBy, categoryFilters, isDarkMode>>
          ELSE /\ Store' = Store
               /\ storage' = storage]_vars

\* C3 witness: a file of two elements, one of them failing the check, was
\* rejected while the store held records.
C3_Witness ==
    /\ lastOp.op = "handleImport"
    /\ lastOp.file.kind = "array"
    /\ Len(lastOp.file.items) = 2
    /\ ~WellFormedFile(lastOp.file)
    /\ feedbacks # <<>>

\* C4: addFeedback puts a new record with the given text and category and
\* no votes in front of the records held, which stay as they were and in
\* their order; after two creates in a row the second call's record is first
\* and the first call's record second.
C4_AddPrepends ==
    [][lastOp'.op = "addFeedback" =>
          /\ Len(feedbacks') = Len(feedbacks) + 1
          /\ feedbacks'[1].text = lastOp'.text
          /\ feedbacks'[1].category = lastOp'.category
          /\ feedbacks'[1].votes = 0
          /\ feedbacks'[1].id \notin Ids(feedbacks)
          /\ Tail(feedbacks') = feedbacks
          /\ lastOp.op = "addFeedback" =>
                /\ feedbacks'[1].id = lastOp'.id
                /\ feedbacks'[2].id = lastOp.id
                /\ feedbacks'[2].text = lastOp.text
                /\ feedbacks'[2].category = lastOp.category]_vars

\* C4 witness: a record was added in front of a record that has votes.
C4_Witness ==
    /\ lastOp.op = "addFeedback"
    /\ Len(feedbacks) = 2
    /\ feedbacks[1].id = lastOp.id
    /\ feedbacks[2].votes # 0

C6_EditReplacesTextAndCategory ==
    [][(/\ \/ lastOp'.op = "editFeedback"
           \/ lastOp'.op = "handleEditSave" /\ lastOp'.arg = "saved"
        /\ lastOp'.id \in Ids(feedbacks)) =>
          /\ Len(feedbacks') = Len(feedbacks)
          /\ \A i \in 1..Len(feedbacks) :
                IF feedbacks[i].id = lastOp'.id
                THEN /\ feedbacks'[i].text = lastOp'.text
                     /\ feedbacks'[i].category = lastOp'.category
                     /\ feedbacks'[i].id = feedbacks[i].id
                     /\ feedbacks'[i].votes = feedbacks[i].votes
                     /\ feedbacks'[i].createdAt = feedbacks[i].createdAt
                ELSE feedbacks'[i] = feedbacks[i]
          /\ <<sortBy, categoryFilters, isDarkMode>>' =
                <<sortBy, categoryFilters, isDarkMode>>]_vars

\* C6 witness: the dialog saved a new text for a record whose votes had
\* changed since the dialog was opened, and the record has the new votes.
C6_Witness ==
    /\ lastOp.op = "handleEditSave"
    /\ lastOp.arg = "saved"
    /\ \E i \in 1..Len(feedbacks) :
          /\ feedbacks[i].id = lastOp.id
          /\ feedbacks[i].text = "b"
          /\ feedbacks[i].votes # lastOp.votesAtOpen

\* The categories selected, as a set, and the four categories there are.
Selected(filters) == {filters[i] : i \in 1..Len(filters)}

Universe == {"UI", "Performance", "Feature", "Other"}

\* A record is to be shown: every category is selected, or its own is.
Shown(f, filters) == Selected(filters) = Universe \/ f.category \in Selected(filters)

InView(f, view) == \E k \in 1..Len(view) : view[k] = f

SortKey(f) == IF sortBy = "votes" THEN f.votes ELSE f.createdAt

Place(f) == CHOOSE i \in 1..Len(feedbacks) : feedbacks[i].id = f.id

\* C8: the view is the shown records in descending order of the sort key
\* (votes, or createdAt), records of equal key in their order in feedbacks.
\* With A (2 votes) created before B (0 votes) and sortBy = 'votes' the view
\* is A, B.
C8_ViewSortedStable ==
    LET view == View(feedbacks, sortBy, categoryFilters) IN
    /\ \A i \in 1..Len(feedbacks) :
          InView(feedbacks[i], view) <=> Shown(feedbacks[i], categoryFilters)
    /\ Len(view) = Cardinality({i \in 1..Len(feedbacks) : Shown(feedbacks[i], categoryFilters)})
    /\ \A k, l \in 1..Len(view) :
          k < l => /\ SortKey(view[k]) >= SortKey(view[l])
                   /\ SortKey(view[k]) = SortKey(view[l]) => Place(view[k]) < Place(view[l])
    /\ (/\ Len(feedbacks) = 2 /\ sortBy = "votes" /\ Selected(categoryFilters) = Universe
        /\ feedbacks[1].votes = 0 /\ feedbacks[2].votes = 2)
          => view = <<feedbacks[2], feedbacks[1]>>

\* C8 witness: B was created after A had got two votes and sortBy had been
\* set to 'votes'.
C8_Witness ==
    /\ lastOp.op = "addFeedback"
    /\ sortBy = "votes"
    /\ Selected(categoryFilters) = Universe
    /\ Len(feedbacks) = 2
    /\ feedbacks[1].votes = 0
    /\ feedbacks[2].votes = 2

\* C9: toggleCategoryFilter removes the category when it is selected and
\* adds it when it is not, leaves the other categories, feedbacks, sortBy
\* and isDarkMode alone; toggling UI when all four are selected leaves a
\* view of exactly the records that are not of category UI.
C9_ToggleSymmetricDifference ==
    [][lastOp'.op = "toggleCategoryFilter" =>
          /\ Selected(categoryFilters') =
                IF lastOp'.category \in Selected(categoryFilters)
                THEN Selected(categoryFilters) \ {lastOp'.category}
                ELSE Selected(categoryFilters) \cup {lastOp'.category}
          /\ <<feedbacks, sortBy, isDarkMode>>' = <<feedbacks, sortBy, isDarkMode>>
          /\ (Selected(categoryFilters) = Universe /\ lastOp'.category = "UI") =>
                \A i \in 1..Len(feedbacks) :
                    InView(feedbacks[i], View(feedbacks', sortBy', categoryFilters'))
                        <=> feedbacks[i].category # "UI"]_vars

\* C9 witness: UI was toggled off from the initial filter while a UI record
\* and a record of another category were held.
C9_Witness ==
    /\ lastOp.op = "toggleCategoryFilter"
    /\ lastOp.category = "UI"
    /\ categoryFilters = <<"Performance", "Feature", "Other">>
    /\ \E i, j \in 1..Len(feedbacks) :
          feedbacks[i].category = "UI" /\ feedbacks[j].category # "UI"

C11_ExportImportRoundTrip ==
    [][(/\ lastOp'.op = "handleImport"
        /\ download # <<>>
        /\ lastOp'.file = download[1].file) =>
          /\ lastOp'.arg = "imported"
          /\ feedbacks' = download[1].source]_vars

\* C12: categoryFilters holds no category twice and only categories of
\* ALL_CATEGORIES, so that its length is 4 exactly when it holds all four.
C12_FiltersDistinctMembers ==
    /\ \A i \in 1..Len(categoryFilters) : categoryFilters[i] \in Universe
    /\ \A i, j \in 1..Len(categoryFilters) :
          categoryFilters[i] = categoryFilters[j] => i = j
    /\ Len(categoryFilters) = Len(ALL_CATEGORIES) <=> Selected(categoryFilters) = Universe

\* C12 witness: single toggles brought all four categories back in an
\* order that is not the initial one.
C12_Witness ==
    /\ lastOp.op = "toggleCategoryFilter"
    /\ Len(categoryFilters) = Len(ALL_CATEGORIES)
    /\ categoryFilters[1] = "Other"
    /\ categoryFilters[Len(categoryFilters)] = "UI"

====
